---- MODULE Spec2Model ----
(***************************************************************************)
(* Model of riddler (src/src/main.rs): the GameState session, the four     *)
(* guardian turn operations, calculate_score, and save_game / load_game    *)
(* over the save file and its temporary file.                              *)
(*                                                                         *)
(* Text is a sequence of atoms.  An atom is one character ("y", " ", "\n", *)
(* "\"", "\\") or a run of ordinary characters of a fixed prompt that is   *)
(* never inspected character by character.                                 *)
(***************************************************************************)
EXTENDS Integers, Sequences, FiniteSets, TLC

VARIABLES
    state,      \* the GameState held in memory, or NoState
    slot,       \* the file SAVE_FILE
    tmp,        \* the file SAVE_FILE.tmp
    result,     \* the last call made and what it returned
    calls,      \* number of calls made in this behaviour
    faults,     \* number of failures injected in this behaviour
    entered,    \* attempts of the in-memory session when it entered memory
    guesses,    \* check_guess calls made on the in-memory session
    e2e,        \* progress through the end-to-end scenario
    args,       \* argument tuple of a pure-function evaluation
    ret,        \* result of a pure-function evaluation
    ctl         \* main(): where the controller stands and the message it shows

vars == <<state, slot, tmp, result, calls, faults, entered, guesses, e2e, args,
          ret, ctl>>

----------------------------------------------------------------------------
(* Bounds of the model *)

MaxCalls == 4

MaxMainCalls == 5

MaxFaults == 1

MaxAttempts == 6

MaxHintsArg == 4

----------------------------------------------------------------------------
(* Text helpers *)

Upper == <<"A","B","C","D","E","F","G","H","I","J","K","L","M",
           "N","O","P","Q","R","S","T","U","V","W","X","Y","Z">>

Lower == <<"a","b","c","d","e","f","g","h","i","j","k","l","m",
           "n","o","p","q","r","s","t","u","v","w","x","y","z">>

Whitespace == {" ", "\n", "\t", "\r"}

\* char::to_lowercase on one atom
lower_char(c) ==
    IF \E i \in 1..Len(Upper) : Upper[i] = c
    THEN Lower[CHOOSE i \in 1..Len(Upper) : Upper[i] = c]
    ELSE c

\* str::to_lowercase
to_lowercase(s) == [i \in 1..Len(s) |-> lower_char(s[i])]

RECURSIVE trim_start(_)
trim_start(s) ==
    IF s # <<>> /\ Head(s) \in Whitespace THEN trim_start(Tail(s)) ELSE s

RECURSIVE trim_end(_)
trim_end(s) ==
    IF s # <<>> /\ s[Len(s)] \in Whitespace
    THEN trim_end(SubSeq(s, 1, Len(s) - 1))
    ELSE s

\* str::trim
trim(s) == trim_end(trim_start(s))

----------------------------------------------------------------------------
(* Messages and the session record *)

user(text) == [role |-> "user", content |-> text]

assistant(text) == [role |-> "assistant", content |-> text]

NoState == [none |-> TRUE]

\* GameState::default(), with the clock reading `now`
DefaultState(now) ==
    [difficulty |-> 1,
     current_riddle |-> <<>>,
     attempts |-> 0,
     hints_used |-> 0,
     history |-> <<>>,
     score |-> 0,
     date_started |-> now]

SAVE_FILE_fields ==
    <<"difficulty", "current_riddle", "attempts", "hints_used",
      "history", "score", "date_started">>

----------------------------------------------------------------------------
(* serde_json: writing and reading the session as a document.  A document *)
(* is a sequence of lines: "{", one line per field in declaration order,  *)
(* "}".  Numbers are written as decimal digits, text as a quoted string   *)
(* with the quote, the backslash and the newline escaped.                 *)

Digit == <<"0","1","2","3","4","5","6","7","8","9">>

RECURSIVE fmt_unsigned(_)
fmt_unsigned(n) ==
    IF n < 10 THEN <<Digit[n + 1]>>
    ELSE fmt_unsigned(n \div 10) \o <<Digit[(n % 10) + 1]>>

fmt_signed(n) == IF n < 0 THEN <<"-">> \o fmt_unsigned(-n) ELSE fmt_unsigned(n)

IsDigit(c) == \E i \in 1..10 : Digit[i] = c

digit_value(c) == (CHOOSE i \in 1..10 : Digit[i] = c) - 1

\* -1 stands for "not a number"
RECURSIVE parse_unsigned(_)
parse_unsigned(ds) ==
    IF ds = <<>> \/ ~IsDigit(ds[Len(ds)]) THEN -1
    ELSE IF Len(ds) = 1 THEN digit_value(ds[1])
    ELSE LET hi == parse_unsigned(SubSeq(ds, 1, Len(ds) - 1))
         IN IF hi < 0 THEN -1 ELSE hi * 10 + digit_value(ds[Len(ds)])

signed_ok(ds) ==
    IF ds # <<>> /\ ds[1] = "-" THEN parse_unsigned(Tail(ds)) >= 0
    ELSE parse_unsigned(ds) >= 0

parse_signed(ds) ==
    IF ds # <<>> /\ ds[1] = "-" THEN 0 - parse_unsigned(Tail(ds))
    ELSE parse_unsigned(ds)

\* escape_char that leaves the backslash as it is
escape_char_raw_backslash(c) ==
    CASE c = "\"" -> <<"\\", "\"">>
      [] c = "\n" -> <<"\\", "n">>
      [] c = "\r" -> <<"\\", "r">>
      [] c = "\t" -> <<"\\", "t">>
      [] OTHER -> <<c>>

escape_char(c) ==
    CASE c = "\"" -> <<"\\", "\"">>
      [] c = "\\" -> <<"\\", "\\">>
      [] c = "\n" -> <<"\\", "n">>
      [] c = "\r" -> <<"\\", "r">>
      [] c = "\t" -> <<"\\", "t">>
      [] OTHER -> <<c>>

RECURSIVE escape(_)
escape(s) == IF s = <<>> THEN <<>> ELSE escape_char(Head(s)) \o escape(Tail(s))

json_string(s) == <<"\"">> \o escape(s) \o <<"\"">>

unescape_char(c) ==
    CASE c = "n" -> "\n"
      [] c = "r" -> "\r"
      [] c = "t" -> "\t"
      [] OTHER -> c

\* the body of a quoted string; a lone trailing backslash or a bare quote
\* is malformed
RECURSIVE body_ok(_)
body_ok(b) ==
    IF b = <<>> THEN TRUE
    ELSE IF Head(b) = "\\"
         THEN Len(b) >= 2 /\ b[2] \in {"\"", "\\", "n", "r", "t"}
              /\ body_ok(SubSeq(b, 3, Len(b)))
         ELSE Head(b) # "\"" /\ body_ok(Tail(b))

RECURSIVE unescape(_)
unescape(b) ==
    IF b = <<>> THEN <<>>
    ELSE IF Head(b) = "\\"
         THEN <<unescape_char(b[2])>> \o unescape(SubSeq(b, 3, Len(b)))
         ELSE <<Head(b)>> \o unescape(Tail(b))

string_ok(t) ==
    /\ Len(t) >= 2
    /\ t[1] = "\""
    /\ t[Len(t)] = "\""
    /\ body_ok(SubSeq(t, 2, Len(t) - 1))

parse_string(t) == unescape(SubSeq(t, 2, Len(t) - 1))

message_to_json(m) ==
    [role |-> json_string(<<m.role>>), content |-> json_string(m.content)]

message_ok(j) ==
    /\ string_ok(j.role)
    /\ string_ok(j.content)
    /\ Len(parse_string(j.role)) = 1

message_from_json(j) ==
    [role |-> parse_string(j.role)[1], content |-> parse_string(j.content)]

Line(k, v) == [key |-> k, val |-> v]

\* serde_json::to_string_pretty(state)
to_string_pretty(st) ==
    << Line("{", <<>>),
       Line("difficulty", fmt_unsigned(st.difficulty)),
       Line("current_riddle", json_string(st.current_riddle)),
       Line("attempts", fmt_unsigned(st.attempts)),
       Line("hints_used", fmt_unsigned(st.hints_used)),
       Line("history", [i \in 1..Len(st.history) |-> message_to_json(st.history[i])]),
       Line("score", fmt_signed(st.score)),
       Line("date_started", json_string(st.date_started)),
       Line("}", <<>>) >>

\* whether serde_json::from_str::<GameState> accepts the document
json_ok(doc) ==
    /\ Len(doc) = Len(SAVE_FILE_fields) + 2
    /\ doc[1].key = "{"
    /\ doc[Len(doc)].key = "}"
    /\ \A i \in 1..Len(SAVE_FILE_fields) : doc[i + 1].key = SAVE_FILE_fields[i]
    /\ parse_unsigned(doc[2].val) >= 0
    /\ string_ok(doc[3].val)
    /\ parse_unsigned(doc[4].val) >= 0
    /\ parse_unsigned(doc[5].val) >= 0
    /\ \A i \in 1..Len(doc[6].val) : message_ok(doc[6].val[i])
    /\ signed_ok(doc[7].val)
    /\ string_ok(doc[8].val)

\* serde_json::from_str::<GameState> on an accepted document
from_str(doc) ==
    [difficulty |-> parse_unsigned(doc[2].val),
     current_riddle |-> parse_string(doc[3].val),
     attempts |-> parse_unsigned(doc[4].val),
     hints_used |-> parse_unsigned(doc[5].val),
     history |-> [i \in 1..Len(doc[6].val) |-> message_from_json(doc[6].val[i])],
     score |-> parse_signed(doc[7].val),
     date_started |-> parse_string(doc[8].val)]

----------------------------------------------------------------------------
(* Files, save_game and load_game *)

NoFile == [exists |-> FALSE, data |-> <<>>]

File(d) == [exists |-> TRUE, data |-> d]

\* what a write that stops half way leaves in the file
Partial(doc) == File(SubSeq(doc, 1, Len(doc) \div 2))

\* Ways save_game can be cut short: an error returned by fs::write,
\* fs::remove_file or fs::rename, or the process killed between two steps.
SaveFaults ==
    {"write_open", "write_part", "remove", "rename",
     "kill_write", "kill_written", "kill_removed"}

SaveOutcome(sl, tp, st) == [slot |-> sl, tmp |-> tp, status |-> st]

save_game(st, sl, tp, fault) ==
    LET json == to_string_pretty(st)
        written == File(json)
        removed == IF sl.exists THEN NoFile ELSE sl
    IN  IF fault = "write_open" THEN SaveOutcome(sl, tp, "err")
        ELSE IF fault = "write_part" THEN SaveOutcome(sl, Partial(json), "err")
        ELSE IF fault = "kill_write" THEN SaveOutcome(sl, Partial(json), "killed")
        ELSE IF fault = "kill_written" THEN SaveOutcome(sl, written, "killed")
        ELSE IF ~written.exists THEN SaveOutcome(sl, written, "ok")
        ELSE IF sl.exists /\ fault = "remove" THEN SaveOutcome(sl, written, "err")
        ELSE IF fault = "kill_removed" THEN SaveOutcome(removed, written, "killed")
        ELSE IF fault = "rename" THEN SaveOutcome(removed, written, "err")
        ELSE SaveOutcome(written, NoFile, "ok")

\* load_game that answers an unreadable file with the default session
load_game_lenient(sl, now) ==
    IF sl.exists /\ json_ok(sl.data)
    THEN [ok |-> TRUE, state |-> from_str(sl.data)]
    ELSE [ok |-> TRUE, state |-> DefaultState(now)]

load_game(sl, now) ==
    IF sl.exists
    THEN IF json_ok(sl.data)
         THEN [ok |-> TRUE, state |-> from_str(sl.data)]
         ELSE [ok |-> FALSE, state |-> NoState]
    ELSE [ok |-> TRUE, state |-> DefaultState(now)]

----------------------------------------------------------------------------
(* Prompts and scoring *)

get_difficulty_prompt(difficulty) ==
    CASE difficulty = 0 ->
           <<"Please create a simple and straightforward riddle suitable for beginners.">>
      [] difficulty = 1 ->
           <<"Create a moderately challenging riddle that requires some thought.">>
      [] difficulty = 2 ->
           <<"Craft an extremely challenging riddle that will truly test the user's intellect.">>
      [] OTHER -> <<"Come up with a riddle for the user">>

hint_request == <<"X", "Y", "Z">>

ask_about_guess(guess) ==
    <<"Here is the user's answer: ">> \o guess \o
    <<"\n", "Please answer exactly ", "\"", "yes", "\"", " or ", "\"", "no", "\"",
      " if this answer is satisfactory, nothing more.">>

insight_prompt == <<"Please provide the user with their deeply deserved insight">>

Max(a, b) == IF a >= b THEN a ELSE b

\* base_score with the easy and medium scores swapped
base_score_swapped(difficulty) ==
    CASE difficulty = 0 -> 25
      [] difficulty = 1 -> 10
      [] difficulty = 2 -> 50
      [] OTHER -> 25

base_score(difficulty) ==
    CASE difficulty = 0 -> 10
      [] difficulty = 1 -> 25
      [] difficulty = 2 -> 50
      [] OTHER -> 25

\* calculate_score that adds the hint penalty instead of taking it off
calculate_score_hint_bonus(difficulty, attempts, hints) ==
    LET attempt_penalty == Max(attempts - 1, 0) * 5
        hint_penalty == hints * 10
    IN  Max(base_score(difficulty) - attempt_penalty + hint_penalty, 0)

\* calculate_score without the final .max(0)
calculate_score_no_floor(difficulty, attempts, hints) ==
    LET attempt_penalty == Max(attempts - 1, 0) * 5
        hint_penalty == hints * 10
    IN  base_score(difficulty) - attempt_penalty - hint_penalty

calculate_score(difficulty, attempts, hints) ==
    LET attempt_penalty == Max(attempts - 1, 0) * 5
        hint_penalty == hints * 10
    IN  Max(base_score(difficulty) - attempt_penalty - hint_penalty, 0)

----------------------------------------------------------------------------
(* The guardian turn operations *)

\* guardian_chat that turns a failure into an empty reply
guardian_chat_swallow(prompt, history, reply, chatOk) ==
    [ok |-> TRUE, value |-> IF chatOk THEN reply ELSE <<>>,
     prompt |-> prompt, history |-> history]

\* guardian_chat that calls the capability with an empty history
guardian_chat_no_history(prompt, history, reply, chatOk) ==
    [ok |-> chatOk, value |-> IF chatOk THEN reply ELSE <<>>,
     prompt |-> prompt, history |-> <<>>]

\* riddler.chat(prompt, history): the capability is given `prompt` and
\* `history`, and answers `reply` or fails
guardian_chat(prompt, history, reply, chatOk) ==
    IF chatOk
    THEN [ok |-> TRUE, value |-> reply, prompt |-> prompt, history |-> history]
    ELSE [ok |-> FALSE, value |-> <<>>, prompt |-> prompt, history |-> history]

\* push_turns that records the prompt and drops the reply
push_turns_prompt_only(st, prompt, reply) ==
    [st EXCEPT !.history = Append(@, user(prompt))]

\* push_turns that puts the new pair in front of the transcript
push_turns_front(st, prompt, reply) ==
    [st EXCEPT !.history = <<user(prompt), assistant(reply)>> \o @]

\* push_turns that also takes the reply for the riddle
push_turns_sets_riddle(st, prompt, reply) ==
    [st EXCEPT !.history = Append(Append(@, user(prompt)), assistant(reply)),
               !.current_riddle = reply]

\* state.history.push(Message::user(..)); state.history.push(Message::assistant(..))
push_turns(st, prompt, reply) ==
    [st EXCEPT !.history = Append(Append(@, user(prompt)), assistant(reply))]

\* use_hint that also counts the hint as an attempt
use_hint_as_attempt(st) == [st EXCEPT !.hints_used = @ + 1, !.attempts = @ + 1]

\* state.hints_used += 1
use_hint(st) == [st EXCEPT !.hints_used = @ + 1]

\* count_attempt that does not count
count_attempt_skip(st) == st

\* state.attempts += 1
count_attempt(st) == [st EXCEPT !.attempts = @ + 1]

\* is_correct that accepts every reply starting with "yes"
is_correct_prefix(judgement) ==
    LET judgement_clean == to_lowercase(trim(judgement))
    IN  /\ Len(judgement_clean) >= 3
        /\ SubSeq(judgement_clean, 1, 3) = <<"y", "e", "s">>

\* judgement.trim().to_lowercase() compared with "yes" and "yes."
is_correct(judgement) ==
    LET judgement_clean == to_lowercase(trim(judgement))
    IN  judgement_clean = <<"y", "e", "s">> \/ judgement_clean = <<"y", "e", "s", ".">>

\* award that scores every judged guess
award_always(st, correct) ==
    [st EXCEPT !.score =
         @ + calculate_score(st.difficulty, st.attempts, st.hints_used)]

\* if correct { state.score += calculate_score(..) }
award(st, correct) ==
    IF correct
    THEN [st EXCEPT !.score =
              @ + calculate_score(st.difficulty, st.attempts, st.hints_used)]
    ELSE st

\* What a call leaves behind: `state` is the caller's session after the call,
\* `session` the one handed to save_game (NoState when save_game was not
\* reached), `out` the text returned, `correct` the judgement returned and
\* `chat` the guardian_chat call made (its prompt and history included).
Outcome(st, sl, tp, status, out, correct, saved, chat) ==
    [state |-> st, slot |-> sl, tmp |-> tp, status |-> status,
     out |-> out, correct |-> correct, session |-> saved,
     prompt |-> chat.prompt, sent |-> chat.history]

\* `held` is what the caller holds before the call; it keeps it when
\* start_new_game returns Err.
start_new_game(held, difficulty, now, sl, tp, reply, chatOk, fault) ==
    LET fresh == [DefaultState(now) EXCEPT !.difficulty = difficulty]
        riddle_prompt == get_difficulty_prompt(difficulty)
        riddle == guardian_chat(riddle_prompt, <<>>, reply, chatOk)
    IN  IF ~riddle.ok
        THEN Outcome(held, sl, tp, "err", <<>>, FALSE, NoState, riddle)
        ELSE LET s1 == [fresh EXCEPT !.current_riddle = riddle.value]
                 s2 == push_turns(s1, riddle_prompt, riddle.value)
                 sv == save_game(s2, sl, tp, fault)
             IN  IF sv.status = "ok"
                 THEN Outcome(s2, sv.slot, sv.tmp, "ok", riddle.value, FALSE, s2, riddle)
                 ELSE Outcome(held, sv.slot, sv.tmp, sv.status, <<>>, FALSE, s2,
                              riddle)

\* get_hint that counts the hint only once the guardian has answered
get_hint_count_late(st, sl, tp, reply, chatOk, fault) ==
    LET hint == guardian_chat(hint_request, st.history, reply, chatOk)
    IN  IF ~hint.ok
        THEN Outcome(st, sl, tp, "err", <<>>, FALSE, NoState, hint)
        ELSE LET s2 == push_turns(use_hint(st), hint_request, hint.value)
                 sv == save_game(s2, sl, tp, fault)
             IN  Outcome(s2, sv.slot, sv.tmp, sv.status,
                         IF sv.status = "ok" THEN hint.value ELSE <<>>, FALSE, s2,
                         hint)

get_hint(st, sl, tp, reply, chatOk, fault) ==
    LET s1 == use_hint(st)
        hint == guardian_chat(hint_request, s1.history, reply, chatOk)
    IN  IF ~hint.ok
        THEN Outcome(s1, sl, tp, "err", <<>>, FALSE, NoState, hint)
        ELSE LET s2 == push_turns(s1, hint_request, hint.value)
                 sv == save_game(s2, sl, tp, fault)
             IN  Outcome(s2, sv.slot, sv.tmp, sv.status,
                         IF sv.status = "ok" THEN hint.value ELSE <<>>, FALSE, s2,
                         hint)

\* check_guess that saves before the score is awarded
check_guess_save_early(guess, st, sl, tp, reply, chatOk, fault) ==
    LET s1 == count_attempt(st)
        judgement == guardian_chat(ask_about_guess(guess), s1.history, reply,
                                   chatOk)
    IN  IF ~judgement.ok
        THEN Outcome(s1, sl, tp, "err", <<>>, FALSE, NoState, judgement)
        ELSE LET correct == is_correct(judgement.value)
                 s2 == push_turns(s1, ask_about_guess(guess), judgement.value)
                 sv == save_game(s2, sl, tp, fault)
                 s3 == award(s2, correct)
             IN  Outcome(s3, sv.slot, sv.tmp, sv.status, <<>>,
                         sv.status = "ok" /\ correct, s3, judgement)

check_guess(guess, st, sl, tp, reply, chatOk, fault) ==
    LET s1 == count_attempt(st)
        judgement == guardian_chat(ask_about_guess(guess), s1.history, reply,
                                   chatOk)
    IN  IF ~judgement.ok
        THEN Outcome(s1, sl, tp, "err", <<>>, FALSE, NoState, judgement)
        ELSE LET correct == is_correct(judgement.value)
                 s2 == push_turns(s1, ask_about_guess(guess), judgement.value)
                 s3 == award(s2, correct)
                 sv == save_game(s3, sl, tp, fault)
             IN  Outcome(s3, sv.slot, sv.tmp, sv.status, <<>>,
                         sv.status = "ok" /\ correct, s3, judgement)

reveal_insight(st, sl, tp, reply, chatOk, fault) ==
    LET insight == guardian_chat(insight_prompt, st.history, reply, chatOk)
    IN  IF ~insight.ok
        THEN Outcome(st, sl, tp, "err", <<>>, FALSE, NoState, insight)
        ELSE LET s2 == push_turns(st, insight_prompt, insight.value)
                 sv == save_game(s2, sl, tp, fault)
             IN  Outcome(s2, sv.slot, sv.tmp, sv.status,
                         IF sv.status = "ok" THEN insight.value ELSE <<>>, FALSE, s2,
                         insight)

----------------------------------------------------------------------------
(* Inputs *)

\* difficulty levels chosen at the menu (Select offers 0, 1 and 2)
Difficulties == {1, 2}

\* readings of Local::now().to_rfc3339()
Times == {<<"2025-03-02T18:30:00+00:00">>}

Riddles == {<<"I speak without a mouth and hear without ears. What am I?">>}

Hints == {<<"Seek where voices return", ".", "\n", "\\", "o", "/">>}

Judgements == {<<"y", "e", "s">>, <<"n", "o">>, <<" ", "Y", "e", "s", ".", " ">>}

Insights == {<<"What answers you was always your own voice.">>}

Guesses == {<<"an ", "\"", "echo", "\"">>}

AllFaults == SaveFaults \cup {"none"}

----------------------------------------------------------------------------
(* State machine: a caller that holds at most one session and makes one   *)
(* call at a time.  A killed process loses the session it held.           *)

NoResult ==
    [op |-> "none", arg |-> <<>>, chat |-> "none", reply |-> <<>>,
     status |-> "none", out |-> <<>>, correct |-> FALSE, session |-> NoState,
     prompt |-> <<>>, sent |-> <<>>]

\* no controller: the turn operations are called directly
NoCtl == [pc |-> "none", msg |-> "none"]

Init ==
    /\ ctl = NoCtl
    /\ state = NoState
    /\ slot = NoFile
    /\ tmp = NoFile
    /\ result = NoResult
    /\ calls = 0
    /\ faults = 0
    /\ entered = 0
    /\ guesses = 0
    /\ e2e = 0
    /\ args = <<>>
    /\ ret = -1

\* a call may be made, and this combination of failures may be injected
MayCall(chatOk, fault) ==
    /\ calls < MaxCalls
    /\ chatOk \/ fault = "none"
    /\ fault = "remove" => slot.exists
    /\ (~chatOk \/ fault # "none") => faults < MaxFaults

\* the scenario start_new_game(1), request_hint, a guess answered "no",
\* a guess answered "yes", every call returning Ok; 5 once it is left
ScenarioStep(pos, op, arg, status, reply) ==
    IF status # "ok" THEN 5
    ELSE IF pos = 0 /\ op = "start_new_game" /\ arg = 1 THEN 1
    ELSE IF pos = 1 /\ op = "get_hint" THEN 2
    ELSE IF pos = 2 /\ op = "check_guess" /\ reply = <<"n", "o">> THEN 3
    ELSE IF pos = 3 /\ op = "check_guess" /\ reply = <<"y", "e", "s">> THEN 4
    ELSE 5

\* the files and the record of the call after a turn operation
Record(op, arg, o, reply, chatOk, fault) ==
    /\ slot' = o.slot
    /\ tmp' = o.tmp
    /\ result' = [op |-> op, arg |-> arg,
                  chat |-> IF chatOk THEN "ok" ELSE "fail",
                  reply |-> IF chatOk THEN reply ELSE <<>>,
                  status |-> o.status, out |-> o.out,
                  correct |-> o.correct, session |-> o.session,
                  prompt |-> o.prompt, sent |-> o.sent]
    /\ calls' = calls + 1
    /\ faults' = IF chatOk /\ fault = "none" THEN faults ELSE faults + 1
    /\ e2e' = ScenarioStep(e2e, op, arg, o.status, reply)
    /\ UNCHANGED <<args, ret>>

Commit(op, arg, o, reply, chatOk, fault) ==
    /\ Record(op, arg, o, reply, chatOk, fault)
    /\ state' = IF o.status = "killed" THEN NoState ELSE o.state
    /\ UNCHANGED ctl

StartNewGame ==
    \E difficulty \in Difficulties, now \in Times, reply \in Riddles,
       chatOk \in BOOLEAN, fault \in AllFaults :
        /\ MayCall(chatOk, fault)
        /\ \E o \in {start_new_game(state, difficulty, now, slot, tmp,
                                   reply, chatOk, fault)} :
               /\ Commit("start_new_game", difficulty, o, reply, chatOk, fault)
               /\ entered' = IF o.status = "err" THEN entered ELSE 0
               /\ guesses' = IF o.status = "err" THEN guesses ELSE 0

GetHint ==
    \E reply \in Hints, chatOk \in BOOLEAN, fault \in AllFaults :
        /\ state # NoState
        /\ MayCall(chatOk, fault)
        /\ \E o \in {get_hint(state, slot, tmp, reply, chatOk, fault)} :
               /\ Commit("get_hint", <<>>, o, reply, chatOk, fault)
               /\ entered' = IF o.status = "killed" THEN 0 ELSE entered
               /\ guesses' = IF o.status = "killed" THEN 0 ELSE guesses

CheckGuess ==
    \E guess \in Guesses, reply \in Judgements, chatOk \in BOOLEAN,
       fault \in AllFaults :
        /\ state # NoState
        /\ MayCall(chatOk, fault)
        /\ \E o \in {check_guess(guess, state, slot, tmp, reply, chatOk, fault)} :
               /\ Commit("check_guess", guess, o, reply, chatOk, fault)
               /\ entered' = IF o.status = "killed" THEN 0 ELSE entered
               /\ guesses' = IF o.status = "killed" THEN 0 ELSE guesses + 1

RevealInsight ==
    \E reply \in Insights, chatOk \in BOOLEAN, fault \in AllFaults :
        /\ state # NoState
        /\ MayCall(chatOk, fault)
        /\ \E o \in {reveal_insight(state, slot, tmp, reply, chatOk, fault)} :
               /\ Commit("reveal_insight", <<>>, o, reply, chatOk, fault)
               /\ entered' = IF o.status = "killed" THEN 0 ELSE entered
               /\ guesses' = IF o.status = "killed" THEN 0 ELSE guesses

\* the 'riddle' command: the riddle is printed again
ShowRiddle ==
    /\ state # NoState
    /\ calls < MaxCalls
    /\ result' = [NoResult EXCEPT !.op = "riddle", !.status = "ok",
                                  !.out = state.current_riddle]
    /\ calls' = calls + 1
    /\ e2e' = 5
    /\ UNCHANGED <<state, slot, tmp, faults, entered, guesses, args, ret, ctl>>

\* load_game(): on Ok the caller holds the loaded session
LoadGame ==
    \E now \in Times :
        /\ calls < MaxCalls
        /\ \E r \in {load_game(slot, now)} :
               /\ state' = IF r.ok THEN r.state ELSE state
               /\ result' = [NoResult EXCEPT !.op = "load_game",
                                 !.status = IF r.ok THEN "ok" ELSE "err",
                                 !.session = r.state]
               /\ entered' = IF r.ok THEN r.state.attempts ELSE entered
               /\ guesses' = IF r.ok THEN 0 ELSE guesses
        /\ calls' = calls + 1
        /\ e2e' = 5
        /\ UNCHANGED <<slot, tmp, faults, args, ret, ctl>>

Next ==
    \/ StartNewGame
    \/ GetHint
    \/ CheckGuess
    \/ RevealInsight
    \/ ShowRiddle
    \/ LoadGame

Spec == Init /\ [][Next]_vars

----------------------------------------------------------------------------
(* calculate_score evaluated on every argument tuple of a bounded range *)

ScoreInit ==
    /\ ctl = NoCtl
    /\ state = NoState
    /\ slot = NoFile
    /\ tmp = NoFile
    /\ result = NoResult
    /\ calls = 0
    /\ faults = 0
    /\ entered = 0
    /\ guesses = 0
    /\ e2e = 0
    /\ args \in (0..3) \X (0..MaxAttempts) \X (0..MaxHintsArg)
    /\ ret = -1

EvalScore ==
    /\ ret = -1
    /\ ret' = calculate_score(args[1], args[2], args[3])
    /\ UNCHANGED <<state, slot, tmp, result, calls, faults, entered, guesses, e2e,
                   args, ctl>>

ScoreNext == EvalScore

ScoreSpec == ScoreInit /\ [][ScoreNext]_vars

----------------------------------------------------------------------------
(* check_guess evaluated once on every reply of a bounded set: a core text  *)
(* between two runs of whitespace, judged on a session just started        *)

\* whitespace around the judgement
Paddings == {<<>>, <<" ">>, <<"\n">>, <<" ", "\n">>}

\* replies that read yes, in several spellings
YesReplies ==
    {<<"y", "e", "s">>, <<"Y", "e", "s">>, <<"Y", "E", "S">>, <<"y", "E", "s">>,
     <<"y", "e", "s", ".">>, <<"Y", "e", "s", ".">>, <<"Y", "E", "S", ".">>}

\* replies that do not: no, nothing, maybe, and longer texts holding yes
OtherReplies ==
    {<<"n", "o">>, <<"N", "o">>, <<"n", "o", ".">>, <<>>,
     <<"m", "a", "y", "b", "e">>, <<"y">>, <<"y", "e", "s", "s">>,
     <<"y", "e", "s", "!">>, <<"y", "e", "s", ".", ".">>,
     <<".", "y", "e", "s">>, <<"y", " ", "e", "s">>, <<"y", "e", "s", " ", ".">>,
     <<"Y", "e", "s", ",", " ", "i", "t", " ", "i", "s", ".">>,
     <<"n", "o", ",", " ", "n", "o", "t", " ", "y", "e", "s">>,
     <<"\"", "y", "e", "s", "\"">>, <<"y", "e", "s", "\n", "n", "o">>}

\* the session and the files after a first start_new_game
Started ==
    CHOOSE o \in {start_new_game(NoState, 1, now, NoFile, NoFile, riddle, TRUE,
                                 "none") : now \in Times, riddle \in Riddles} :
        TRUE

JudgeInit ==
    /\ ctl = NoCtl
    /\ state = Started.state
    /\ slot = Started.slot
    /\ tmp = Started.tmp
    /\ result = NoResult
    /\ calls = 0
    /\ faults = 0
    /\ entered = 0
    /\ guesses = 0
    /\ e2e = 5
    /\ args \in Paddings \X (YesReplies \cup OtherReplies) \X Paddings
    /\ ret = -1

\* one check_guess whose judgement is the reply drawn, the save succeeding
JudgeGuess ==
    \E guess \in Guesses :
        /\ result.op = "none"
        /\ \E o \in {check_guess(guess, state, slot, tmp,
                                 args[1] \o args[2] \o args[3], TRUE, "none")} :
               /\ Commit("check_guess", guess, o, args[1] \o args[2] \o args[3],
                         TRUE, "none")
               /\ entered' = entered
               /\ guesses' = guesses + 1

JudgeNext == JudgeGuess

JudgeSpec == JudgeInit /\ [][JudgeNext]_vars

----------------------------------------------------------------------------
(* main(): the menu loop and the riddle solving loop.  Every call made     *)
(* with `?` ends the process when it returns Err.                          *)

\* print_fancy_message texts of the Continue branch and of guardian_chat
NO_SAVED_GAME == "No saved game found!"

LOAD_ERROR == "No saved game found or error loading save!"

CANNOT_RESPOND == "The Ancient Guardian cannot respond..."

\* save files whose content serde_json rejects
CorruptFiles == {Partial(Started.slot.data)}

\* what SAVE_FILE may hold when the process starts
SavedFiles == {NoFile, Started.slot} \cup CorruptFiles

\* DIFFICULTY_DESCRIPTIONS has three entries
DIFFICULTY_DESCRIPTIONS == 0..2

MainInit ==
    /\ ctl = [pc |-> "MainMenu", msg |-> "none"]
    /\ state = NoState
    /\ slot \in SavedFiles
    /\ tmp = NoFile
    /\ result = NoResult
    /\ calls = 0
    /\ faults = 0
    /\ entered = 0
    /\ guesses = 0
    /\ e2e = 0
    /\ args = <<>>
    /\ ret = -1

\* a call may be made by main, and this combination of failures injected
MainMayCall(chatOk, fault) ==
    /\ calls < MaxMainCalls
    /\ chatOk \/ fault = "none"
    /\ fault = "remove" => slot.exists
    /\ (~chatOk \/ fault # "none") => faults < MaxFaults

\* where main stands once a call made with `?` has returned
After(status, pc) ==
    IF status = "ok" THEN pc
    ELSE IF status = "killed" THEN "Killed"
    ELSE "Exited"

\* main after a turn operation: `state` lives on only when the call
\* returned Ok
MainCommit(op, arg, o, reply, chatOk, fault, pc) ==
    /\ Record(op, arg, o, reply, chatOk, fault)
    /\ state' = IF o.status = "ok" THEN o.state ELSE NoState
    /\ ctl' = [pc |-> After(o.status, pc),
               msg |-> IF chatOk THEN "none" ELSE CANNOT_RESPOND]

\* a step of main that makes no call
Goto(pc) ==
    /\ ctl' = [pc |-> pc, msg |-> "none"]
    /\ UNCHANGED <<slot, tmp, result, calls, faults, e2e, args, ret>>

\* selection 0 of the main menu
MenuStartNewGame ==
    /\ ctl.pc = "MainMenu"
    /\ Goto("NewGameDifficultySelect")
    /\ UNCHANGED <<state, entered, guesses>>

\* the difficulty is chosen and start_new_game is called
SelectDifficulty ==
    \E difficulty \in Difficulties, now \in Times, reply \in Riddles,
       chatOk \in BOOLEAN, fault \in AllFaults :
        /\ ctl.pc = "NewGameDifficultySelect"
        /\ MainMayCall(chatOk, fault)
        /\ \E o \in {start_new_game(NoState, difficulty, now, slot, tmp,
                                   reply, chatOk, fault)} :
               MainCommit("start_new_game", difficulty, o, reply, chatOk, fault,
                          "ActiveRiddle")
        /\ entered' = 0
        /\ guesses' = 0

\* selection 1 of the main menu: load_game and what main makes of it
MenuContinue ==
    \E now \in Times :
        /\ ctl.pc = "MainMenu"
        /\ calls < MaxMainCalls
        /\ \E r \in {load_game(slot, now)} :
               /\ result' = [NoResult EXCEPT !.op = "load_game",
                                 !.status = IF r.ok THEN "ok" ELSE "err",
                                 !.session = r.state]
               /\ IF ~r.ok
                  THEN /\ ctl' = [pc |-> "LoadFailed", msg |-> LOAD_ERROR]
                       /\ state' = NoState
                       /\ entered' = 0
                  ELSE IF r.state.current_riddle = <<>>
                  THEN /\ ctl' = [pc |-> "NoSavedGame", msg |-> NO_SAVED_GAME]
                       /\ state' = NoState
                       /\ entered' = 0
                  ELSE IF r.state.difficulty \notin DIFFICULTY_DESCRIPTIONS
                  THEN /\ ctl' = [pc |-> "Exited", msg |-> "none"]
                       /\ state' = NoState
                       /\ entered' = 0
                  ELSE /\ ctl' = [pc |-> "ActiveRiddle", msg |-> "none"]
                       /\ state' = r.state
                       /\ entered' = r.state.attempts
        /\ guesses' = 0
        /\ calls' = calls + 1
        /\ e2e' = 5
        /\ UNCHANGED <<slot, tmp, faults, args, ret>>

\* the message has been shown for two seconds: back to the menu
MessageShown ==
    /\ ctl.pc \in {"NoSavedGame", "LoadFailed"}
    /\ Goto("MainMenu")
    /\ UNCHANGED <<state, entered, guesses>>

\* selection 2 of the main menu
MenuInstructions ==
    /\ ctl.pc = "MainMenu"
    /\ Goto("Instructions")
    /\ UNCHANGED <<state, entered, guesses>>

\* Enter pressed on the instructions
InstructionsRead ==
    /\ ctl.pc = "Instructions"
    /\ Goto("MainMenu")
    /\ UNCHANGED <<state, entered, guesses>>

\* selection 3 of the main menu
MenuQuit ==
    /\ ctl.pc = "MainMenu"
    /\ Goto("Quit")
    /\ UNCHANGED <<state, entered, guesses>>

\* 'hint' typed in the riddle solving loop
InputHint ==
    \E reply \in Hints, chatOk \in BOOLEAN, fault \in AllFaults :
        /\ ctl.pc = "ActiveRiddle"
        /\ MainMayCall(chatOk, fault)
        /\ \E o \in {get_hint(state, slot, tmp, reply, chatOk, fault)} :
               MainCommit("get_hint", <<>>, o, reply, chatOk, fault,
                          "ActiveRiddle")
        /\ UNCHANGED <<entered, guesses>>

\* 'riddle' typed in the riddle solving loop
InputRiddle ==
    /\ ctl.pc = "ActiveRiddle"
    /\ calls < MaxMainCalls
    /\ result' = [NoResult EXCEPT !.op = "riddle", !.status = "ok",
                                  !.out = state.current_riddle]
    /\ calls' = calls + 1
    /\ e2e' = 5
    /\ UNCHANGED <<state, slot, tmp, faults, entered, guesses, args, ret, ctl>>

\* anything else typed in the riddle solving loop is a guess
InputGuess ==
    \E guess \in Guesses, reply \in Judgements, chatOk \in BOOLEAN,
       fault \in AllFaults :
        /\ ctl.pc = "ActiveRiddle"
        /\ MainMayCall(chatOk, fault)
        /\ \E o \in {check_guess(guess, state, slot, tmp, reply, chatOk, fault)} :
               MainCommit("check_guess", guess, o, reply, chatOk, fault,
                          IF o.correct THEN "RevealInsight" ELSE "ActiveRiddle")
        /\ entered' = entered
        /\ guesses' = guesses + 1

\* after CORRECT!: reveal_insight, then the play-again question
Insight ==
    \E reply \in Insights, chatOk \in BOOLEAN, fault \in AllFaults :
        /\ ctl.pc = "RevealInsight"
        /\ MainMayCall(chatOk, fault)
        /\ \E o \in {reveal_insight(state, slot, tmp, reply, chatOk, fault)} :
               MainCommit("reveal_insight", <<>>, o, reply, chatOk, fault,
                          "PlayAgain")
        /\ UNCHANGED <<entered, guesses>>

\* play_again == 0: break out of the riddle loop, into the menu loop
PlayAgainYes ==
    /\ ctl.pc = "PlayAgain"
    /\ Goto("MainMenu")
    /\ state' = NoState
    /\ entered' = 0
    /\ guesses' = 0

\* play_again == 1: return Ok(())
PlayAgainNo ==
    /\ ctl.pc = "PlayAgain"
    /\ Goto("Quit")
    /\ state' = NoState
    /\ entered' = 0
    /\ guesses' = 0

\* the program is run again; the files are as the last run left them
Restart ==
    /\ ctl.pc \in {"Quit", "Exited", "Killed"}
    /\ calls < MaxMainCalls
    /\ ctl' = [pc |-> "MainMenu", msg |-> "none"]
    /\ state' = NoState
    /\ result' = NoResult
    /\ entered' = 0
    /\ guesses' = 0
    /\ e2e' = 5
    /\ UNCHANGED <<slot, tmp, calls, faults, args, ret>>

MainNext ==
    \/ MenuStartNewGame
    \/ SelectDifficulty
    \/ MenuContinue
    \/ MessageShown
    \/ MenuInstructions
    \/ InstructionsRead
    \/ MenuQuit
    \/ InputHint
    \/ InputRiddle
    \/ InputGuess
    \/ Insight
    \/ PlayAgainYes
    \/ PlayAgainNo
    \/ Restart

MainSpec == MainInit /\ [][MainNext]_vars

----------------------------------------------------------------------------
(* Properties *)

TurnOps == {"start_new_game", "get_hint", "check_guess", "reveal_insight"}

\* the prompt a turn operation sends
PromptOf(op, arg) ==
    CASE op = "start_new_game" -> get_difficulty_prompt(arg)
      [] op = "get_hint" -> hint_request
      [] op = "check_guess" -> ask_about_guess(arg)
      [] op = "reveal_insight" -> insight_prompt

\* the last call was a turn operation that changed the caller's transcript
TurnRecorded ==
    /\ state # NoState
    /\ result.op \in TurnOps
    /\ result.chat = "ok"
    /\ result.op = "start_new_game" => result.status = "ok"

PairsMatched(h) ==
    /\ Len(h) % 2 = 0
    /\ \A i \in 1..Len(h) :
          IF i % 2 = 1
          THEN h[i].role = "user" /\ i < Len(h) /\ h[i + 1].role = "assistant"
          ELSE h[i].role = "assistant"

\* C1: whatever calls were made and however each ended, the transcript held
\* in memory has even length, alternates user prompt / assistant reply, and
\* the pair a turn has just appended is its prompt followed by the reply the
\* capability gave to it.
C1_TranscriptInPairs ==
    state # NoState =>
        /\ PairsMatched(state.history)
        /\ TurnRecorded =>
              LET n == Len(state.history)
              IN  /\ n >= 2
                  /\ state.history[n - 1] = user(PromptOf(result.op, result.arg))
                  /\ state.history[n] = assistant(result.reply)

C1_Witness ==
    /\ state # NoState
    /\ Len(state.history) >= 4
    /\ result.op \in TurnOps
    /\ result.status = "err"

\* C2: when the process is killed inside save_game, a load afterwards
\* succeeds and returns the session that was being saved or what a load
\* would have returned before the call.
C2_SaveDurability ==
    [][result'.status = "killed" =>
          \A now \in Times :
              /\ load_game(slot', now).ok
              /\ \/ load_game(slot', now).state = result'.session
                 \/ load_game(slot', now) = load_game(slot, now)]_vars

\* C3: a turn operation whose completion call fails returns an error and
\* leaves the caller's transcript, the save file and the temporary file as
\* they were.
C3_ChatFailureTouchesNothing ==
    [][result'.chat = "fail" =>
          /\ result'.op \in TurnOps
          /\ result'.status = "err"
          /\ slot' = slot
          /\ tmp' = tmp
          /\ IF state = NoState THEN state' = NoState
             ELSE state' # NoState /\ state'.history = state.history]_vars

C3_Witness ==
    /\ result.chat = "fail"
    /\ result.op = "reveal_insight"
    /\ slot.exists
    /\ Len(state.history) >= 2

\* C4 as stated: a check_guess whose completion call fails leaves attempts,
\* hints_used, score and transcript as they were.
C4_FailedGuessNoMutation ==
    [][(result'.op = "check_guess" /\ result'.chat = "fail") =>
          /\ state'.attempts = state.attempts
          /\ state'.hints_used = state.hints_used
          /\ state'.score = state.score
          /\ state'.history = state.history]_vars

\* C4 amended: a check_guess whose completion call fails has raised attempts
\* by one and leaves hints_used, score and transcript as they were.
C4_FailedGuessCountsAttempt ==
    [][(result'.op = "check_guess" /\ result'.chat = "fail") =>
          /\ result'.status = "err"
          /\ state'.attempts = state.attempts + 1
          /\ state'.hints_used = state.hints_used
          /\ state'.score = state.score
          /\ state'.history = state.history]_vars

C4_Witness ==
    /\ result.op = "check_guess"
    /\ result.chat = "fail"
    /\ state.attempts >= 1

\* C5: a get_hint whose completion call fails has raised hints_used by one
\* and leaves the transcript, the save file and the temporary file as they
\* were.
C5_FailedHintStillCounted ==
    [][(result'.op = "get_hint" /\ result'.chat = "fail") =>
          /\ result'.status = "err"
          /\ state'.hints_used = state.hints_used + 1
          /\ state'.history = state.history
          /\ slot' = slot
          /\ tmp' = tmp]_vars

C5_Witness ==
    /\ result.op = "get_hint"
    /\ result.chat = "fail"
    /\ state.hints_used >= 1
    /\ slot.exists

\* the step is a call on the session held in memory, which is still held
SameSession ==
    /\ state # NoState
    /\ state' # NoState
    /\ result'.op \in {"get_hint", "check_guess", "reveal_insight", "riddle"}

\* the step is a check_guess whose judgement reads yes
JudgedCorrect ==
    /\ result'.op = "check_guess"
    /\ result'.chat = "ok"
    /\ is_correct(result'.reply)

\* C6: the score is never negative; on the session held in memory it changes
\* only in a check_guess judged correct, and then by calculate_score of the
\* session's difficulty, attempts (this guess counted) and hints_used; every
\* other call leaves it as it was.
C6_ScoreOnlyOnCorrectGuess ==
    /\ [](state # NoState => state.score >= 0)
    /\ [][SameSession =>
             /\ state'.score >= state.score
             /\ IF JudgedCorrect
                THEN state'.score = state.score +
                         calculate_score(state'.difficulty, state'.attempts,
                                         state'.hints_used)
                ELSE state'.score = state.score]_vars

C6_Witness ==
    /\ result.op = "check_guess"
    /\ result.correct
    /\ state.score > 0
    /\ state.hints_used >= 1
    /\ state.attempts >= 2

\* C7: attempts of the session held in memory is its value when the session
\* entered memory (0 for a new game) plus the number of check_guess calls made
\* on it since; no other call moves it.
C7_AttemptsCountGuesses ==
    state # NoState => state.attempts = entered + guesses

C7_Witness ==
    /\ state # NoState
    /\ guesses >= 2
    /\ state.hints_used >= 1
    /\ state.attempts = 2

\* C8: start_new_game(1) gives attempts 0, hints_used 0, score 0 and the reply
\* as current_riddle; then get_hint gives hints_used 1; then a guess answered
\* "no" gives attempts 1, not correct, score still 0; then a guess answered
\* "yes" gives attempts 2, correct and score 10.
C8_EndToEnd ==
    /\ e2e = 1 => /\ state.attempts = 0
                  /\ state.hints_used = 0
                  /\ state.score = 0
                  /\ state.difficulty = 1
                  /\ state.current_riddle = result.reply
                  /\ result.out = result.reply
    /\ e2e = 2 => /\ state.hints_used = 1
                  /\ state.attempts = 0
    /\ e2e = 3 => /\ state.attempts = 1
                  /\ ~result.correct
                  /\ state.score = 0
    /\ e2e = 4 => /\ state.attempts = 2
                  /\ result.correct
                  /\ state.hints_used = 1
                  /\ state.score = 10

C8_Witness == e2e = 4

\* C9: a load that follows a successful save returns Ok with the very session
\* that was saved, field for field.
C9_SaveLoadRoundTrip ==
    [][(/\ result.op \in TurnOps
        /\ result.status = "ok"
        /\ result'.op = "load_game") =>
          /\ result'.status = "ok"
          /\ result'.session = result.session
          /\ state' = state]_vars

C9_Witness ==
    /\ result.op = "load_game"
    /\ result.status = "ok"
    /\ Len(state.history) >= 4
    /\ state.hints_used >= 1
    /\ state.score > 0

\* the score as the specification words it
Floor0(n) == IF n < 0 THEN 0 ELSE n

StatedBase(difficulty) ==
    IF difficulty = 0 THEN 10
    ELSE IF difficulty = 2 THEN 50
    ELSE 25

StatedScore(difficulty, attempts, hints) ==
    Floor0(StatedBase(difficulty) - 5 * Floor0(attempts - 1) - 10 * hints)

\* C10: calculate_score equals max(base - 5*max(attempts-1,0) - 10*hints, 0)
\* with base 10, 25, 50 for difficulty 0, 1, 2 and 25 otherwise; it gives 25
\* for (1,1,0), 30 for (2,3,1), 0 for (0,5,3), and no attempt penalty when
\* attempts is 0.
C10_ScoreFormula ==
    ret # -1 =>
        /\ ret = StatedScore(args[1], args[2], args[3])
        /\ args = <<1, 1, 0>> => ret = 25
        /\ args = <<2, 3, 1>> => ret = 30
        /\ args = <<0, 5, 3>> => ret = 0
        /\ args[2] = 0 => ret = Floor0(StatedBase(args[1]) - 10 * args[3])

C10_Witness ==
    /\ ret # -1
    /\ args = <<0, 5, 3>>

\* C11: for difficulty 0, 1, 2, attempts >= 1 and hints >= 0 the score is
\* never negative, and one more attempt or one more hint never raises it.
C11_ScoreMonotone ==
    (ret # -1 /\ args[1] \in 0..2 /\ args[2] >= 1) =>
        /\ ret >= 0
        /\ calculate_score(args[1], args[2] + 1, args[3]) <= ret
        /\ calculate_score(args[1], args[2], args[3] + 1) <= ret
        /\ calculate_score(args[1], args[2] + 1, args[3]) >= 0
        /\ calculate_score(args[1], args[2], args[3] + 1) >= 0

C11_Witness ==
    /\ ret = 25
    /\ args = <<2, 2, 2>>

\* C12: a judged guess is correct exactly when the reply, whitespace and
\* letter case set aside, reads "yes" or "yes."; any other reply is a normal
\* incorrect result, and either way the turn is in the transcript and saved.
C12_JudgementParsing ==
    result.op = "check_guess" =>
        /\ result.status = "ok"
        /\ result.correct <=> args[2] \in YesReplies
        /\ Len(state.history) = Len(Started.state.history) + 2
        /\ state.history[Len(state.history) - 1]
               = user(ask_about_guess(result.arg))
        /\ state.history[Len(state.history)]
               = assistant(args[1] \o args[2] \o args[3])
        /\ slot.exists
        /\ json_ok(slot.data)
        /\ from_str(slot.data) = state

C12_Witness ==
    /\ result.op = "check_guess"
    /\ ~result.correct
    /\ args[2] = <<"Y", "e", "s", ",", " ", "i", "t", " ", "i", "s", ".">>
    /\ state.attempts = 1

\* a step of main in which a turn operation was called
MainCall == calls' = calls + 1 /\ result'.op \in TurnOps

\* C13 as stated: when the completion call of a turn operation fails, main
\* does not end; it stands where the same request can be made again.
C13_ChatFailureKeepsRunning ==
    [][(MainCall /\ result'.chat = "fail") =>
           /\ ctl'.pc # "Exited"
           /\ ctl'.pc = ctl.pc]_vars

\* a step of main in which Continue Saved Game was selected
MainLoad == ctl.pc = "MainMenu" /\ calls' = calls + 1 /\ result'.op = "load_game"

\* C14: when the save file is absent load_game returns the default session
\* without error and main shows the no-saved-game message; when the file is
\* there and does not parse load_game returns Err, main shows another
\* message and does not enter the riddle loop with any session.
C14_CorruptSaveSurfaced ==
    [][MainLoad =>
           /\ ~slot.exists =>
                  /\ result'.status = "ok"
                  /\ result'.session.current_riddle = <<>>
                  /\ result'.session.history = <<>>
                  /\ result'.session.attempts = 0
                  /\ result'.session.score = 0
                  /\ ctl'.pc = "NoSavedGame"
                  /\ ctl'.msg = NO_SAVED_GAME
           /\ slot \in CorruptFiles =>
                  /\ result'.status = "err"
                  /\ ctl'.pc \notin {"ActiveRiddle", "NoSavedGame"}
                  /\ ctl'.msg \notin {"none", NO_SAVED_GAME}
                  /\ state' = NoState]_vars

C14_Witness ==
    /\ result.op = "load_game"
    /\ slot \in CorruptFiles
    /\ ctl.pc = "LoadFailed"
    /\ ctl.msg = LOAD_ERROR

\* C15: the history given to the completion capability is empty in
\* start_new_game and, in the three other operations, the whole transcript of
\* the session as it stands when the call is made, a loaded session included.
C15_FullHistorySent ==
    [][(calls' = calls + 1 /\ result'.op \in TurnOps) =>
           /\ result'.prompt = PromptOf(result'.op, result'.arg)
           /\ result'.sent = IF result'.op = "start_new_game"
                             THEN <<>>
                             ELSE state.history]_vars

C15_Witness ==
    /\ result.op \in {"get_hint", "check_guess", "reveal_insight"}
    /\ entered >= 1
    /\ Len(result.sent) >= 4
    /\ Len(state.history) = Len(result.sent) + 2

IsPrefix(a, b) == Len(a) <= Len(b) /\ SubSeq(b, 1, Len(a)) = a

\* C16: while the same session is held, the transcript before a step is a
\* prefix of the transcript after it; only a new session starts it afresh.
C16_TranscriptAppendOnly ==
    [][SameSession => IsPrefix(state.history, state'.history)]_vars

C16_Witness ==
    /\ state # NoState
    /\ result.op = "reveal_insight"
    /\ result.status = "ok"
    /\ Len(state.history) >= 6

\* C17: a hint, a guess, the insight and the riddle shown again, succeeding
\* or failing, leave difficulty, current_riddle and date_started as they were.
C17_CreationFieldsFixed ==
    [][SameSession =>
           /\ state'.difficulty = state.difficulty
           /\ state'.current_riddle = state.current_riddle
           /\ state'.date_started = state.date_started]_vars

C17_Witness ==
    /\ state # NoState
    /\ result.op \in {"get_hint", "check_guess", "reveal_insight"}
    /\ result.chat = "ok"
    /\ result.status = "err"
    /\ state.difficulty = 2
    /\ state.current_riddle # result.reply

\* C18 as stated: in the riddle loop an incorrect guess stays in the loop; a
\* correct guess is followed by reveal_insight and then by the play-again
\* question, which leads to the difficulty selection on yes and to Quit on no.
C18_ActiveRiddleTransitions ==
    [][/\ (MainCall /\ result'.op = "check_guess" /\ result'.status = "ok") =>
              ctl'.pc = IF is_correct(result'.reply) THEN "RevealInsight"
                        ELSE "ActiveRiddle"
       /\ (MainCall /\ result'.op = "reveal_insight" /\ result'.status = "ok") =>
              ctl.pc = "RevealInsight" /\ ctl'.pc = "PlayAgain"
       /\ (ctl.pc = "PlayAgain" /\ ctl'.pc # "PlayAgain") =>
              ctl'.pc \in {"NewGameDifficultySelect", "Quit"}]_vars

\* C19 as stated: when the completion call of a turn operation succeeds and
\* the save returns an error, the caller gets the error and the session it
\* holds is the one with the turn applied; start_new_game included.
C19_SaveFailureKeepsMutation ==
    [][(calls' = calls + 1 /\ result'.op \in TurnOps
            /\ result'.chat = "ok" /\ result'.status = "err") =>
           /\ result'.session # NoState
           /\ Len(result'.session.history) >= 2
           /\ result'.session.history[Len(result'.session.history)]
                  = assistant(result'.reply)
           /\ state' = result'.session]_vars

\* C20: right after a turn operation that returned Ok, the save file parses
\* back to exactly the session held in memory and the temporary file is gone;
\* this includes a start_new_game made over an earlier save.
C20_SlotHoldsSession ==
    (result.op \in TurnOps /\ result.status = "ok") =>
        /\ state # NoState
        /\ slot = File(to_string_pretty(state))
        /\ json_ok(slot.data)
        /\ from_str(slot.data) = state
        /\ ~tmp.exists

C20_Witness ==
    /\ result.op = "check_guess"
    /\ result.correct
    /\ state # NoState
    /\ state.score > 0
    /\ state.hints_used >= 1
    /\ slot.exists

\* the session has a guess in its transcript that was judged correct
Solved(st) ==
    \E i \in 2..Len(st.history) :
        /\ st.history[i].role = "assistant"
        /\ is_correct(st.history[i].content)
        /\ \E guess \in Guesses :
               st.history[i - 1] = user(ask_about_guess(guess))

\* C21 as stated, for runs in which no call has failed: a guess judged
\* correct is never made on a session that already has one, a session loaded
\* by Continue Saved Game included, and the score of the session after it
\* does not exceed the base score of its difficulty.
C21_ScoredAtMostOnce ==
    [][(MainCall /\ result'.op = "check_guess" /\ result'.correct
            /\ faults' = 0) =>
           /\ ~Solved(state)
           /\ state'.score <= base_score(state'.difficulty)]_vars

====
